---- MODULE Spec2Model ----
(***************************************************************************)
(* The recipe API: list, create, update and reorder over one collection of *)
(* recipes kept in a document store, plus the startup seed.  The           *)
(* repository holds three versions of the server: src/server.js, and the   *)
(* two programs concatenated in src/unnamed/part_000 (lines 1-130 and      *)
(* 131-282, the second one with the seed).  `variant` says which one runs. *)
(***************************************************************************)
EXTENDS Integers, Sequences, FiniteSets

VARIABLES variant, store, clock, last, seed, batch

vars == <<variant, store, clock, last, seed, batch>>

(***************************************************************************)
(* Bounds of the model.                                                    *)
(***************************************************************************)
\* most recipes the create handler is let to add
MaxRecipes == 2
\* longest orderedIds array of a reorder request: every recipe and one more id
MaxBatch == MaxRecipes + 1
\* most milliseconds the clock advances
MaxTicks == 1
\* number of distinct values Math.random() takes within one millisecond
RandRes == 2
\* number of recipes the remote source returns
SeedSize == 2
\* number of reorder requests in flight at once
NumBatches == 2
\* most create requests handled while the seed is running
MaxRacing == 1

\* Date.now() when the server starts; larger than any reorder index
StartTime == 10

Variants == {"server", "part0", "part1"}

IsPart(v) == v \in {"part0", "part1"}

(***************************************************************************)
(* JSON values of a request body, tagged with their type.                  *)
(* Text is a sequence of characters: "s" a space, "U" stands for a run of  *)
(* characters that forms a URL, digits are digits.                         *)
(***************************************************************************)
Missing == <<"missing">>
Str(s) == <<"str", s>>
Num(k) == <<"num", k>>
Arr(a) == <<"arr", a>>

TypeOf(x) == x[1]

\* the characters of a string, the number of a number, the elements of an array
ValueOf(x) == IF TypeOf(x) = "missing" THEN <<>> ELSE x[2]

Digits == <<"0", "1", "2", "3", "4", "5", "6", "7", "8", "9">>

IsDigit(c) == \E i \in 1..10 : Digits[i] = c

DigitValue(c) == (CHOOSE i \in 1..10 : Digits[i] = c) - 1

\* express-validator's toString(): undefined becomes "", a number its decimal form
RECURSIVE NumToString(_)
NumToString(n) ==
  IF n < 10 THEN <<Digits[n + 1]>>
  ELSE NumToString(n \div 10) \o <<Digits[(n % 10) + 1]>>

toString(x) ==
  CASE TypeOf(x) = "str" -> ValueOf(x)
    [] TypeOf(x) = "num" -> NumToString(ValueOf(x))
    [] OTHER -> <<>>

RECURSIVE TrimLeft(_)
TrimLeft(s) ==
  IF s # <<>> /\ Head(s) = "s" THEN TrimLeft(Tail(s)) ELSE s

RECURSIVE TrimRight(_)
TrimRight(s) ==
  IF s # <<>> /\ s[Len(s)] = "s" THEN TrimRight(SubSeq(s, 1, Len(s) - 1)) ELSE s

\* .trim()
trim(s) == TrimRight(TrimLeft(s))

\* .notEmpty()
notEmpty(s) == Len(s) > 0

\* .isURL()
isURL(s) == s = <<"U">>

RECURSIVE ParseInt(_)
ParseInt(s) ==
  IF s = <<>> THEN 0
  ELSE 10 * ParseInt(SubSeq(s, 1, Len(s) - 1)) + DigitValue(s[Len(s)])

\* .isInt({ min }): decimal digits without a leading zero, value at least min
isInt(s, min) ==
  /\ Len(s) >= 1
  /\ \A i \in 1..Len(s) : IsDigit(s[i])
  /\ (Len(s) = 1 \/ s[1] # "0")
  /\ ParseInt(s) >= min

\* .isArray({ min })
isArray(x, min) == TypeOf(x) = "arr" /\ Len(ValueOf(x)) >= min

(***************************************************************************)
(* The validation chain of create and update.                              *)
(***************************************************************************)
Fields == <<"name", "cuisine", "instructions", "ingredients", "image",
            "prepTimeMinutes", "cookTimeMinutes", "servings">>

TextFields == {"name", "cuisine", "instructions"}

IntFields == {"prepTimeMinutes", "cookTimeMinutes", "servings"}

\* one chain of the list: TRUE when the field passes
FieldPasses(f, p) ==
  CASE f \in TextFields -> notEmpty(trim(toString(p[f])))
    [] f = "ingredients" -> isArray(p[f], 1)
    [] f = "image" -> isURL(trim(toString(p[f])))
    [] OTHER -> isInt(toString(p[f]), 1)

\* a faulty variant, for comparison: the chains stop at the first failing field
validationResultFirst(p) ==
  LET all == SelectSeq(Fields, LAMBDA f : ~FieldPasses(f, p))
  IN  IF all = <<>> THEN <<>> ELSE <<all[1]>>

\* validationResult(req).array(): every chain runs, one error per failing field
validationResult(p) == SelectSeq(Fields, LAMBDA f : ~FieldPasses(f, p))

\* the sanitizers write the trimmed text back into req.body
Sanitize(p) ==
  [f \in DOMAIN p |->
     IF f \in TextFields \/ f = "image" THEN Str(trim(toString(p[f]))) ELSE p[f]]

\* the schema casts the Number fields of a document
CastDoc(p) ==
  [f \in DOMAIN p |->
     IF f \in IntFields THEN Num(ParseInt(toString(p[f]))) ELSE p[f]]

(***************************************************************************)
(* The store: the documents of the collection in insertion order.          *)
(* A position is kept in units of 1/RandRes, so that Date.now() +          *)
(* Math.random() is a whole number.                                        *)
(***************************************************************************)
Ids(s) == {s[i].id : i \in 1..Len(s)}

\* Date.now as the schema's default position
DefaultPosition(now) == now * RandRes

\* a faulty variant, for comparison: position: index
IndexPositionZeroBased(index) == index * RandRes

\* position: index + 1 of the reorder
IndexPosition(index) == (index + 1) * RandRes

\* the _id the store gives a new document
NewId(s) == Len(s) + 1

\* new mongoose.Types.ObjectId(id), and the cast of _id: TRUE when it does not throw
ObjectId(id) == id # 0

RECURSIVE SortedOrders(_)
SortedOrders(docs) ==
  IF docs = {} THEN {<<>>}
  ELSE UNION {{<<d.id>> \o r : r \in SortedOrders(docs \ {d})} :
                d \in {e \in docs : \A o \in docs : e.position <= o.position}}

\* Recipe.find().sort({ position: 1 }): the ids in an ascending order of position;
\* the store returns documents of equal position in any order
FindSorted(s) == SortedOrders({s[i] : i \in 1..Len(s)})

\* Recipe.create(req.body)
CreateDoc(s, p, now) ==
  Append(s, [id |-> NewId(s), position |-> DefaultPosition(now),
             data |-> CastDoc(p)])

\* findByIdAndUpdate(id, req.body): the fields replaced, the position kept
UpdateDoc(s, id, p) ==
  [i \in 1..Len(s) |->
     IF s[i].id = id THEN [s[i] EXCEPT !.data = CastDoc(p)] ELSE s[i]]

\* a faulty variant, for comparison: the filter is dropped, the first document is updated
UpdateOneNoFilter(s, id, index) ==
  [i \in 1..Len(s) |->
     IF i = 1 THEN [s[i] EXCEPT !.position = IndexPosition(index)] ELSE s[i]]

\* one updateOne of the bulk write: { _id: id } gets $set position
UpdateOne(s, id, index) ==
  [i \in 1..Len(s) |->
     IF s[i].id = id THEN [s[i] EXCEPT !.position = IndexPosition(index)]
     ELSE s[i]]

\* a faulty variant, for comparison: the bulk write stops at the first id that matches no document
RECURSIVE BulkWriteStopsAtUnmatched(_, _, _)
BulkWriteStopsAtUnmatched(s, ids, k) ==
  IF k = 0 THEN s
  ELSE IF \E i \in 1..k : ids[i] \notin Ids(s)
    THEN BulkWriteStopsAtUnmatched(s, ids, k - 1)
  ELSE UpdateOne(BulkWriteStopsAtUnmatched(s, ids, k - 1), ids[k], k - 1)

\* Recipe.bulkWrite(bulkUpdates), in order, stopped after the first k operations
RECURSIVE BulkWrite(_, _, _)
BulkWrite(s, ids, k) ==
  IF k = 0 THEN s
  ELSE UpdateOne(BulkWrite(s, ids, k - 1), ids[k], k - 1)

(***************************************************************************)
(* Requests and responses.  `last` is the latest request handled and the   *)
(* response to it.                                                         *)
(***************************************************************************)
NoRequest ==
  [op |-> "none", id |-> 0, ids |-> Missing, payload |-> <<>>,
   status |-> 0, keys |-> {}, body |-> <<>>, errors |-> <<>>,
   sent |-> 0, storeCalls |-> 0, fault |-> FALSE]

\* res.status(500).json(...) of the catch blocks
ErrorKeys(v) == IF IsPart(v) THEN {"message", "error"} ELSE {"message"}

(***************************************************************************)
(* The inputs the handlers are tried on.                                   *)
(***************************************************************************)
ValidPayload ==
  [name |-> Str(<<"s", "a">>), cuisine |-> Str(<<"a">>),
   instructions |-> Str(<<"a">>), ingredients |-> Arr(<<"a", "b">>),
   image |-> Str(<<"U">>), prepTimeMinutes |-> Num(5),
   cookTimeMinutes |-> Str(<<"1", "0">>), servings |-> Num(2)]

OtherPayload == [ValidPayload EXCEPT !.name = Str(<<"b">>)]

BadPayload == [ValidPayload EXCEPT !.name = Str(<<"s">>), !.servings = Num(0)]

\* a well-formed id that no document ever has
UnknownId == MaxRecipes + SeedSize + 1

\* the ids a request may name: the stored ones, an unknown one, and a malformed one (0)
RequestIds(s) == Ids(s) \cup {UnknownId, 0}

\* the sequences without repetition of at most n elements of S
SeqsUpTo(S, n) ==
  UNION {{f \in [1..k -> S] : \A i, j \in 1..k : f[i] = f[j] => i = j} :
           k \in 0..n}

\* req.body.orderedIds: an array of ids, at most one of them not a stored id,
\* or something that is no array
OrderedIdsInputs(s) ==
  {Arr(a) : a \in {f \in SeqsUpTo(RequestIds(s), MaxBatch) :
                     Cardinality({i \in 1..Len(f) : f[i] \notin Ids(s)}) <= 1}}
    \cup {Missing, Str(<<>>)}

(***************************************************************************)
(* Init: the server has started, the store is empty, nothing was handled.  *)
(***************************************************************************)
Init ==
  /\ variant \in Variants
  /\ store = <<>>
  /\ clock = StartTime
  /\ last = NoRequest
  /\ seed = [pc |-> "idle", count |-> 0, first |-> 0, n |-> 0, t0 |-> 0]
  /\ batch = [b \in 1..NumBatches |->
              [pc |-> "idle", ids |-> <<>>, next |-> 0, status |-> 0]]

\* Date.now() moves on
Tick ==
  /\ clock < StartTime + MaxTicks
  /\ clock' = clock + 1
  /\ UNCHANGED <<variant, store, last, seed, batch>>

(***************************************************************************)
(* GET /api/recipes                                                        *)
(***************************************************************************)
\* the responses the list handler may give
ListResponses(v, s, fault) ==
  IF fault
    THEN {[NoRequest EXCEPT !.op = "list", !.status = 500, !.keys = ErrorKeys(v),
                            !.sent = 1, !.storeCalls = 1, !.fault = TRUE]}
  ELSE {[NoRequest EXCEPT !.op = "list", !.status = 200, !.body = r,
                          !.sent = 1, !.storeCalls = 1] : r \in FindSorted(s)}

List(fault) ==
  /\ last' \in ListResponses(variant, store, fault)
  /\ UNCHANGED <<variant, store, clock, seed, batch>>

(***************************************************************************)
(* POST /api/recipes                                                       *)
(***************************************************************************)
\* a faulty variant, for comparison: the document is saved before the validation result is read
CreateStoreUnvalidated(s, p, now, fault) ==
  IF fault THEN s ELSE CreateDoc(s, Sanitize(p), now)

\* the store after the create handler has run
CreateStore(s, p, now, fault) ==
  IF validationResult(p) # <<>> \/ fault THEN s
  ELSE CreateDoc(s, Sanitize(p), now)

\* the response of the create handler
CreateResponse(v, p, fault) ==
  LET errors == validationResult(p)
      req == [NoRequest EXCEPT !.op = "create", !.payload = p, !.sent = 1]
  IN  IF errors # <<>>
        THEN [req EXCEPT !.status = 400, !.keys = {"errors"}, !.errors = errors]
      ELSE IF fault
        THEN [req EXCEPT !.status = 500, !.keys = ErrorKeys(v),
                         !.storeCalls = 1, !.fault = TRUE]
      ELSE [req EXCEPT !.status = 201, !.storeCalls = 1]

Create(p, fault) ==
  /\ Len(store) < MaxRecipes
  /\ store' = CreateStore(store, p, clock, fault)
  /\ last' = CreateResponse(variant, p, fault)
  /\ UNCHANGED <<variant, clock, seed, batch>>

(***************************************************************************)
(* PUT /api/recipes/:id                                                    *)
(***************************************************************************)
\* the store after the update handler has run
UpdateStore(v, s, id, p, fault) ==
  IF IsPart(v) \/ validationResult(p) # <<>> \/ ~ObjectId(id) \/ fault THEN s
  ELSE UpdateDoc(s, id, Sanitize(p))

\* the response of the update handler; in part_000 the handler has an empty body
UpdateResponse(v, s, id, p, fault) ==
  LET errors == validationResult(p)
      req == [NoRequest EXCEPT !.op = "update", !.id = id, !.payload = p]
  IN  IF IsPart(v) THEN req
      ELSE IF errors # <<>>
        THEN [req EXCEPT !.status = 400, !.keys = {"errors"},
                         !.errors = errors, !.sent = 1]
      ELSE IF ~ObjectId(id) \/ fault
        THEN [req EXCEPT !.status = 500, !.keys = ErrorKeys(v), !.sent = 1,
                         !.storeCalls = 1, !.fault = fault]
      ELSE IF id \notin Ids(s)
        THEN [req EXCEPT !.status = 404, !.keys = {"message"}, !.sent = 1,
                         !.storeCalls = 1]
      ELSE [req EXCEPT !.status = 200, !.sent = 1, !.storeCalls = 1]

Update(id, p, fault) ==
  /\ store' = UpdateStore(variant, store, id, p, fault)
  /\ last' = UpdateResponse(variant, store, id, p, fault)
  /\ UNCHANGED <<variant, clock, seed, batch>>

(***************************************************************************)
(* POST /api/recipes/reorder                                               *)
(***************************************************************************)
\* the ids of the array all convert to an ObjectId
AllObjectIds(ids) == \A i \in 1..Len(ids) : ObjectId(ids[i])

\* the store after the reorder handler has run; a failing bulk write has
\* applied its first k operations
ReorderStore(s, oids, fault, k) ==
  IF TypeOf(oids) # "arr" \/ ~AllObjectIds(ValueOf(oids)) THEN s
  ELSE IF fault THEN BulkWrite(s, ValueOf(oids), k)
  ELSE BulkWrite(s, ValueOf(oids), Len(ValueOf(oids)))

\* the response of the reorder handler
ReorderResponse(v, oids, fault) ==
  LET req == [NoRequest EXCEPT !.op = "reorder", !.ids = oids, !.sent = 1]
  IN  IF TypeOf(oids) # "arr"
        THEN [req EXCEPT !.status = 400, !.keys = {"message"}]
      ELSE IF ~AllObjectIds(ValueOf(oids))
        THEN [req EXCEPT !.status = 500, !.keys = ErrorKeys(v),
                         !.storeCalls = IF IsPart(v) THEN 0 ELSE 1]
      ELSE IF fault
        THEN [req EXCEPT !.status = 500, !.keys = ErrorKeys(v),
                         !.storeCalls = 1, !.fault = TRUE]
      ELSE [req EXCEPT !.status = 200, !.keys = {"message"}, !.storeCalls = 1]

Reorder(oids, fault, k) ==
  /\ store' = ReorderStore(store, oids, fault, k)
  /\ last' = ReorderResponse(variant, oids, fault)
  /\ UNCHANGED <<variant, clock, seed, batch>>

Handlers ==
  \/ \E fault \in BOOLEAN : List(fault)
  \/ \E p \in {ValidPayload, BadPayload}, fault \in BOOLEAN : Create(p, fault)
  \/ \E id \in RequestIds(store), p \in {OtherPayload, BadPayload},
        fault \in BOOLEAN : Update(id, p, fault)
  \/ \E oids \in OrderedIdsInputs(store), fault \in BOOLEAN :
       \E k \in 0..(IF fault /\ TypeOf(oids) = "arr" THEN Len(ValueOf(oids)) ELSE 0) :
         Reorder(oids, fault, k)

(***************************************************************************)
(* seedDatabase, run once the connection is up (part_000, second program). *)
(***************************************************************************)
\* instructions.join('\n'); "n" is the newline
RECURSIVE Join(_)
Join(lines) ==
  IF lines = <<>> THEN <<>>
  ELSE IF Len(lines) = 1 THEN <<lines[1]>>
  ELSE <<lines[1], "n">> \o Join(Tail(lines))

\* the i-th recipe of the remote source
RemoteRecipe(i) ==
  [ValidPayload EXCEPT !.instructions = Arr(<<"a", "b">>),
                       !.prepTimeMinutes = Num(i)]

\* the document the map makes of the i-th remote recipe (without its position)
SeedData(i) ==
  CastDoc([RemoteRecipe(i) EXCEPT
             !.instructions = Str(Join(ValueOf(RemoteRecipe(i).instructions)))])

\* position: Date.now() + Math.random()
SeedPosition(now, random) == now * RandRes + random

\* Recipe.insertMany(recipes): recipe i was mapped at time times[i] with
\* Math.random() giving randoms[i]
InsertMany(s, times, randoms) ==
  s \o [i \in 1..SeedSize |->
          [id |-> Len(s) + i, position |-> SeedPosition(times[i], randoms[i]),
           data |-> SeedData(i)]]

\* a faulty variant, for comparison: the seed does not look at the count
SeedAfterCountAlways(sd, count) == [sd EXCEPT !.pc = "fetch", !.count = count]

\* const count = await Recipe.countDocuments(); if (count === 0) ...
SeedAfterCount(sd, count) ==
  [sd EXCEPT !.pc = IF count = 0 THEN "fetch" ELSE "skipped", !.count = count]

SeedCount ==
  /\ variant = "part1"
  /\ seed.pc = "idle"
  /\ seed' = SeedAfterCount(seed, Len(store))
  /\ UNCHANGED <<variant, store, clock, last, batch>>

\* the clock may move on once while the map runs: the first j recipes read the
\* old time
SeedInsert(randoms, j) ==
  /\ variant = "part1"
  /\ seed.pc = "fetch"
  /\ j < SeedSize => clock < StartTime + MaxTicks
  /\ LET times == [i \in 1..SeedSize |-> IF i <= j THEN clock ELSE clock + 1]
     IN  /\ store' = InsertMany(store, times, randoms)
         /\ clock' = times[SeedSize]
         /\ seed' = [seed EXCEPT !.pc = "inserted", !.first = Len(store) + 1,
                                 !.n = SeedSize, !.t0 = clock]
  /\ UNCHANGED <<variant, last, batch>>

\* any await of seedDatabase throws: the catch logs it and nothing is inserted
SeedFail ==
  /\ variant = "part1"
  /\ seed.pc \in {"idle", "fetch"}
  /\ seed' = [seed EXCEPT !.pc = "failed"]
  /\ UNCHANGED <<variant, store, clock, last, batch>>

\* a create request handled before the seed has inserted
CreateDuringSeed ==
  /\ seed.pc \in {"idle", "fetch"}
  /\ Len(store) < MaxRacing
  /\ Create(ValidPayload, FALSE)

SeedSteps ==
  \/ SeedCount
  \/ \E randoms \in [1..SeedSize -> 0..(RandRes - 1)], j \in 0..SeedSize :
       SeedInsert(randoms, j)
  \/ SeedFail

(***************************************************************************)
(* Reorder requests in flight together.  A handler runs to its await of    *)
(* bulkWrite; the store then applies the updateOne operations of a batch   *)
(* one at a time, in order, and those of different batches in any          *)
(* interleaving: no transaction spans a batch.                             *)
(***************************************************************************)
\* the handler up to `await Recipe.bulkWrite(bulkUpdates)`
BatchStarted(oids) ==
  IF TypeOf(oids) # "arr"
    THEN [pc |-> "done", ids |-> <<>>, next |-> 0, status |-> 400]
  ELSE IF ~AllObjectIds(ValueOf(oids))
    THEN [pc |-> "done", ids |-> ValueOf(oids), next |-> 0, status |-> 500]
  ELSE [pc |-> "writing", ids |-> ValueOf(oids), next |-> 1, status |-> 0]

StartBatch(b, oids) ==
  /\ batch[b].pc = "idle"
  /\ batch' = [batch EXCEPT ![b] = BatchStarted(oids)]
  /\ UNCHANGED <<variant, store, clock, last, seed>>

\* the store applies the next updateOne of batch b
WriteNext(b) ==
  /\ batch[b].pc = "writing"
  /\ batch[b].next <= Len(batch[b].ids)
  /\ store' = UpdateOne(store, batch[b].ids[batch[b].next], batch[b].next - 1)
  /\ batch' = [batch EXCEPT ![b].next = @ + 1]
  /\ UNCHANGED <<variant, clock, last, seed>>

\* bulkWrite resolves: res.json({ message: 'Recipes reordered successfully' })
FinishBatch(b) ==
  /\ batch[b].pc = "writing"
  /\ batch[b].next > Len(batch[b].ids)
  /\ batch' = [batch EXCEPT ![b].pc = "done", ![b].status = 200]
  /\ UNCHANGED <<variant, store, clock, last, seed>>

\* the orderings of all the stored ids
Orderings(s) == {f \in [1..Len(s) -> Ids(s)] : \A i, j \in 1..Len(s) : f[i] = f[j] => i = j}

\* recipes are created before the batches start
CreateBefore ==
  /\ \A b \in 1..NumBatches : batch[b].pc = "idle"
  /\ Create(ValidPayload, FALSE)

(***************************************************************************)
(* The specifications.                                                     *)
(* Spec: requests handled one after the other, the store failing at will.  *)
(***************************************************************************)
Next == Tick \/ Handlers

Spec == Init /\ [][Next]_vars

\* SpecR: create, reorder and list requests with a store that does not fail
\* (the clock stands still: every default position is the same)
NextR ==
  \/ Create(ValidPayload, FALSE)
  \/ List(FALSE)
  \/ \E oids \in OrderedIdsInputs(store) : Reorder(oids, FALSE, 0)

SpecR == Init /\ [][NextR]_vars

\* SpecW: the writing requests, with valid and invalid bodies
NextW ==
  \/ Tick
  \/ \E p \in {ValidPayload, BadPayload} : Create(p, FALSE)
  \/ \E id \in RequestIds(store), p \in {OtherPayload, BadPayload} :
       Update(id, p, FALSE)
  \/ \E oids \in {Arr(f) : f \in Orderings(store)} \cup {Missing, Str(<<>>)} :
       Reorder(oids, FALSE, 0)

SpecW == Init /\ [][NextW]_vars

\* SpecSeed: the startup seed racing with create and list requests
NextSeed ==
  \/ Tick
  \/ SeedSteps
  \/ CreateDuringSeed
  \/ List(FALSE)

SpecSeed == Init /\ [][NextSeed]_vars

\* SpecConc: reorder batches over all the stored recipes, interleaved
NextConc ==
  \/ CreateBefore
  \/ \E b \in 1..NumBatches, f \in Orderings(store) : StartBatch(b, Arr(f))
  \/ \E b \in 1..NumBatches : WriteNext(b)
  \/ \E b \in 1..NumBatches : FinishBatch(b)

SpecConc == Init /\ [][NextConc]_vars

\* SpecV: one create request, over every combination of field values
TextValues == {Missing, Str(<<>>), Str(<<"s", "s">>), Str(<<"s", "a", "s">>)}

IntValues == {Missing, Num(0), Num(1), Str(<<"1", "2">>), Str(<<"a">>)}

ArrayValues == {Missing, Str(<<"a">>), Arr(<<>>), Arr(<<"a">>)}

UrlValues == {Missing, Str(<<"a">>), Str(<<"s", "U", "s">>)}

AllPayloads ==
  [name : TextValues, cuisine : TextValues, instructions : TextValues,
   ingredients : ArrayValues, image : UrlValues, prepTimeMinutes : IntValues,
   cookTimeMinutes : IntValues, servings : IntValues]

NextV ==
  /\ last.op = "none"
  /\ \E p \in AllPayloads : Create(p, FALSE)

SpecV == Init /\ [][NextV]_vars

(***************************************************************************)
(* The claims.                                                             *)
(***************************************************************************)
\* ids names every stored recipe exactly once
IsOrderingOfAll(ids, s) ==
  /\ Len(ids) = Len(s)
  /\ {ids[i] : i \in 1..Len(ids)} = Ids(s)

\* a comes before b in the list r
Before(r, a, b) ==
  \E i, j \in 1..Len(r) : i < j /\ r[i] = a /\ r[j] = b

\* the places of ids that name a stored recipe
Known(ids, s) == {i \in 1..Len(ids) : ids[i] \in Ids(s)}

\* every list the store may return has the stored ids of the array in the
\* order of the array
KeepsOrder(ids, s) ==
  \A r \in FindSorted(s) : \A i, j \in Known(ids, s) :
    i < j => Before(r, ids[i], ids[j])

\* C1: a successful reorder whose array names every stored recipe exactly once,
\* followed at once by a successful list, makes the list return exactly the array.
C1_ReorderThenList ==
  [][(/\ last.op = "reorder"
      /\ last.status = 200
      /\ IsOrderingOfAll(ValueOf(last.ids), store)
      /\ last'.op = "list"
      /\ last'.status = 200) => last'.body = ValueOf(last.ids)]_vars

\* C1 witness: the list answered <<2, 1>> with both recipes at the positions a
\* reorder of <<2, 1>> gave them.
C1_Witness ==
  /\ last.op = "list"
  /\ last.body = <<2, 1>>
  /\ Len(store) = 2
  /\ store[2].position = 1 * RandRes
  /\ store[1].position = 2 * RandRes

\* C2: while no recipe has had its default position overwritten, a successful
\* list returns the recipes in the order of their creation.
C2_CreationOrder ==
  (/\ last.op = "list"
   /\ last.status = 200
   /\ \A i \in 1..Len(store) : store[i].position >= DefaultPosition(StartTime))
    => last.body = [i \in 1..Len(store) |-> i]

\* C3 as stated: a reorder whose array holds an id of no stored recipe is
\* answered 200 (the store not failing), and the stored ids of the array are
\* listed in the order of the array.
C3_UnknownIdIgnored ==
  (/\ last.op = "reorder"
   /\ TypeOf(last.ids) = "arr"
   /\ ~last.fault
   /\ Known(ValueOf(last.ids), store) # 1..Len(ValueOf(last.ids)))
    => /\ last.status = 200
       /\ KeepsOrder(ValueOf(last.ids), store)

\* C3 amended: the same, for an array all of whose ids are well-formed.
C3_WellFormedUnknownIdIgnored ==
  (/\ last.op = "reorder"
   /\ TypeOf(last.ids) = "arr"
   /\ ~last.fault
   /\ AllObjectIds(ValueOf(last.ids))
   /\ Known(ValueOf(last.ids), store) # 1..Len(ValueOf(last.ids)))
    => /\ last.status = 200
       /\ KeepsOrder(ValueOf(last.ids), store)

\* C3 witness: a reorder of <<2, unknown, 1>> was answered 200.
C3_Witness ==
  /\ last.op = "reorder"
  /\ last.status = 200
  /\ ValueOf(last.ids) = <<2, UnknownId, 1>>
  /\ Ids(store) = {1, 2}

\* C4: an update with a valid body and a well-formed id of no stored recipe is
\* answered, and answered 404 (the store not failing).
C4_UpdateMissingIs404 ==
  (/\ last.op = "update"
   /\ validationResult(last.payload) = <<>>
   /\ ObjectId(last.id)
   /\ last.id \notin Ids(store)
   /\ ~last.fault)
    => /\ last.sent = 1
       /\ last.status = 404

\* what the field rules say of a value
RuleText(x) ==
  /\ TypeOf(x) = "str"
  /\ \E i \in 1..Len(ValueOf(x)) : ValueOf(x)[i] # "s"

RuleArray(x) == TypeOf(x) = "arr" /\ ValueOf(x) # <<>>

RuleUrl(x) ==
  /\ TypeOf(x) = "str"
  /\ SelectSeq(ValueOf(x), LAMBDA c : c # "s") = <<"U">>

\* an integer of at least 1, as a number or as its decimal numeral
RuleInt(x) ==
  \/ TypeOf(x) = "num" /\ ValueOf(x) >= 1
  \/ /\ TypeOf(x) = "str"
     /\ ValueOf(x) # <<>>
     /\ \A i \in 1..Len(ValueOf(x)) : IsDigit(ValueOf(x)[i])
     /\ ValueOf(x)[1] # "0"

\* the fields of a body that break their rule
Offending(p) ==
  {f \in TextFields : ~RuleText(p[f])}
    \cup {f \in {"ingredients"} : ~RuleArray(p[f])}
    \cup {f \in {"image"} : ~RuleUrl(p[f])}
    \cup {f \in IntFields : ~RuleInt(p[f])}

C6_BadRequestKeepsStore ==
  [][(last' # last /\ last'.status = 400) => store' = store]_vars

\* C6 witness: an update of a stored recipe was answered 400.
C6_Witness ==
  /\ last.op = "update"
  /\ last.status = 400
  /\ last.id \in Ids(store)

\* C7: a request whose store operation failed is answered 500 with a message
\* and the error detail, after one call of the store.
C7_StoreFailureIs500WithDetail ==
  last.fault =>
    /\ last.status = 500
    /\ last.keys = {"message", "error"}
    /\ last.storeCalls = 1

\* the batches have all been answered 200
AllBatchesDone ==
  \A b \in 1..NumBatches : batch[b].pc = "done" /\ batch[b].status = 200

\* C8 as stated: once concurrent reorder batches over all n stored recipes have
\* completed, the positions of the recipes are exactly 1..n, each once.
C8_DenseAfterConcurrentBatches ==
  (AllBatchesDone /\ Len(store) >= 1) =>
    /\ {store[i].position : i \in 1..Len(store)}
         = {k * RandRes : k \in 1..Len(store)}
    /\ \A i, j \in 1..Len(store) :
         store[i].position = store[j].position => i = j

\* C8 amended: once they have completed, each recipe has the position that one
\* of the batches gave it, a value in 1..n; two recipes may share a position.
C8_EachPositionFromSomeBatch ==
  AllBatchesDone =>
    \A i \in 1..Len(store) :
      \E b \in 1..NumBatches, k \in 1..Len(store) :
        /\ batch[b].ids[k] = store[i].id
        /\ store[i].position = k * RandRes

\* C8 witness: the batches have completed and two recipes share a position.
C8_Witness ==
  /\ AllBatchesDone
  /\ \E i, j \in 1..Len(store) :
       i # j /\ store[i].position = store[j].position

\* C9: every request handled has been sent exactly one response.
C9_OneResponse == last.op # "none" => last.sent = 1

\* the i-th document the seed inserted
Seeded(i) == store[seed.first + i - 1]

\* C10 as stated: the seed inserts only into an empty store and gives the
\* recipes strictly increasing positions in source order.
C10_SeedIncreasing ==
  seed.pc = "inserted" =>
    /\ seed.count = 0
    /\ \A i, j \in 1..seed.n : i < j => Seeded(i).position < Seeded(j).position

\* C10 amended: the seed inserts only after counting an empty store, and gives
\* recipe i the time it was mapped at plus a random fraction of a millisecond:
\* the times do not decrease in source order, the positions may.
C10_SeedTimePlusRandom ==
  seed.pc = "inserted" =>
    /\ seed.count = 0
    /\ seed.n = SeedSize
    /\ \A i \in 1..seed.n :
         /\ Seeded(i).position >= seed.t0 * RandRes
         /\ Seeded(i).position < (seed.t0 + 2) * RandRes
    /\ \A i, j \in 1..seed.n :
         i < j => Seeded(i).position \div RandRes <= Seeded(j).position \div RandRes

\* C10 witness: the seed has inserted and a later recipe of the source has a
\* smaller position than an earlier one.
C10_Witness ==
  /\ seed.pc = "inserted"
  /\ \E i, j \in 1..seed.n : i < j /\ Seeded(i).position > Seeded(j).position

====
